---- MODULE Spec2Model ----
(***************************************************************************)
(* backup_restore.py: a linear pipeline                                    *)
(*   provision container -> GET dump -> psql load -> query -> POST         *)
(* wrapped in try/finally, the finally clause being the teardown           *)
(* (containers.get, stop, remove).                                         *)
(*                                                                         *)
(* The external systems (docker daemon, challenge host, psql, PostgreSQL)  *)
(* are the environment: every call into them returns, raises, or - for the *)
(* blocking calls of the pipeline - is cut short by KeyboardInterrupt.     *)
(* Python's exceptions are modelled by the variable exc, the exception in  *)
(* flight: exit()/sys.exit() raise SystemExit, an exception like any       *)
(* other, so the finally clauses run for them.                             *)
(***************************************************************************)
EXTENDS Integers, Sequences, FiniteSets, TLC

\* ---------------------------------------------------------------- bounds
MaxRows == 2          \* rows of public.criminal_records in the dump
MaxSsn == 2           \* distinct ssn values

\* ------------------------------------------------------- program constants
Attempts == 5         \* attempts = 5

\* ------------------------------------------------------------ environment
Statuses == {"alive", "dead"}
Rows == [ssn : 1..MaxSsn, status : Statuses]
RECURSIVE SeqsUpTo(_, _)
SeqsUpTo(S, n) ==
  IF n = 0 THEN {<< >>}
  ELSE LET shorter == SeqsUpTo(S, n - 1)
       IN  shorter \cup {Append(s, x) : s \in {t \in shorter : Len(t) = n - 1}, x \in S}
Tables == SeqsUpTo(Rows, MaxRows)

HttpCodes == {200, 404, 500}      \* status codes the challenge host answers
Steps == {"from_env", "pull", "run", "probe", "sleep", "get", "decode", "gunzip",
          "psql", "connect", "query", "close", "post", "lookup", "stop", "remove"}

VARIABLES
  pc,            \* position of the single thread of control
  exc,           \* exception in flight ("none" when there is none)
  hasToken,      \* sys.argv[1] is present
  table,         \* content of criminal_records in the dump the host serves
  container,     \* the container named container_name at the docker daemon
  calls,         \* calls[s]: how many times step s was invoked
  res,           \* res[s]: how the last invocation of s ended
  pg_available,  \* run_postgres_container's local
  attempts,      \* run_postgres_container's local
  httpStatus,    \* status code of the GET / POST response (0: no response)
  gzFile,        \* scratch file '<dump_file>.gz'
  dumpFile,      \* scratch file '<dump_file>'
  dbRows,        \* criminal_records inside the instance
  conBound,      \* the local 'con' of get_alive_criminal_ssns is bound
  conOpen,       \* the psycopg2 connection is open
  ssn_list,      \* value returned by get_alive_criminal_ssns
  posted         \* the alive_ssns bodies POSTed to the solve endpoint

vars == <<pc, exc, hasToken, table, container, calls, res, pg_available, attempts,
          httpStatus, gzFile, dumpFile, dbRows, conBound, conOpen, ssn_list, posted>>

\* ------------------------------------------------------------ pure helpers

\* try: ... finally: (lines 166-171): where control goes when the try block
\* is left by exception e -- the finally clause, for every exception type.
AfterTryBlock_ExceptOnly(e) ==
  IF e \in {"SystemExit", "SystemExitDb", "KeyboardInterrupt"} THEN "done" ELSE "td_get"
AfterTryBlock_InterruptKills(e) ==
  IF e = "KeyboardInterrupt" THEN "done" ELSE "td_get"
AfterTryBlock(e) == "td_get"

\* raise e at lines 38 and 52, inside the try block of main
ProvisionFailTarget_OutsideTry(e) == "done"
ProvisionFailTarget(e) == AfterTryBlock(e)

\* exit(1) at line 67: the builtin raises SystemExit(1) in the calling frame.
ReadinessExitTarget_HardExit(e) == "done"
ReadinessExitTarget(e) == AfterTryBlock(e)

\* sys.exit(e) at line 131 raises SystemExit; it leaves the function through
\* the function's own finally clause (line 132) and then the try block of main.
ExtractorExitTarget_HardExit(e) == "done"
ExtractorExitTarget(e) == AfterTryBlock(e)

\* if attempts <= 0 (line 65)
BudgetExhausted_Strict(a) == a < 0
BudgetExhausted(a) == a <= 0

\* while not pg_available (line 56), evaluated when line 65 did not exit
LoopEnds_Never(avail) == FALSE
LoopEnds_Always(avail) == TRUE
LoopEnds(avail) == avail

\* res.raise_for_status() (lines 77, 145): HTTPError for 4xx and 5xx
RaiseForStatus_Never(code) == FALSE
RaiseForStatus(code) == code >= 400 /\ code < 600

\* SELECT ssn FROM public.criminal_records WHERE status='alive' (line 128):
\* the rows, as 1-tuples, in row order
SelectAlive_NoWhere(rows) ==
  [i \in 1..Len(rows) |-> <<rows[i].ssn>>]
SelectAlive(rows) ==
  LET alive == SelectSeq(rows, LAMBDA r : r.status = "alive")
  IN  [i \in 1..Len(alive) |-> <<alive[i].ssn>>]

\* [value for line in cur.fetchall() for value in line] (line 129)
RECURSIVE Flatten(_)
Flatten(lines) ==
  IF lines = << >> THEN << >> ELSE Head(lines) \o Flatten(Tail(lines))

\* exit status of the interpreter for the exception that ends the process
ExitStatus_ExitZero(e) ==
  IF e \in {"none", "SystemExit", "SystemExitDb", "SystemExitUsage"} THEN 0
  ELSE IF e = "KeyboardInterrupt" THEN 130
  ELSE 1
ExitStatus(e) ==
  IF e = "none" THEN 0
  ELSE IF e = "KeyboardInterrupt" THEN 130
  ELSE 1

ExitCode == ExitStatus(exc)

Call(s, r) ==
  /\ calls' = [calls EXCEPT ![s] = @ + 1]
  /\ res' = [res EXCEPT ![s] = r]

\* ------------------------------------------------------------------- Init
Init ==
  /\ pc = "start"
  /\ exc = "none"
  /\ hasToken \in BOOLEAN
  /\ table \in Tables
  /\ container = "absent"
  /\ calls = [s \in Steps |-> 0]
  /\ res = [s \in Steps |-> "none"]
  /\ pg_available = FALSE
  /\ attempts = 0
  /\ httpStatus = [get |-> 0, post |-> 0]
  /\ gzFile = "absent"
  /\ dumpFile = "absent"
  /\ dbRows = << >>
  /\ conBound = FALSE
  /\ conOpen = FALSE
  /\ ssn_list = << >>
  /\ posted = << >>

\* ---------------------------------------------------------------- __main__

\* lines 151-154: token = sys.argv[1]; IndexError -> sys.exit(__doc__)
ParseArgs_NoCheck ==
  /\ pc = "start"
  /\ pc' = "setup"
  /\ exc' = exc
  /\ UNCHANGED <<hasToken, table, container, calls, res, pg_available, attempts,
                 httpStatus, gzFile, dumpFile, dbRows, conBound, conOpen, ssn_list, posted>>
ParseArgs ==
  /\ pc = "start"
  /\ IF hasToken
       THEN pc' = "setup" /\ exc' = exc
       ELSE pc' = "done" /\ exc' = "SystemExitUsage"
  /\ UNCHANGED <<hasToken, table, container, calls, res, pg_available, attempts,
                 httpStatus, gzFile, dumpFile, dbRows, conBound, conOpen, ssn_list, posted>>

\* lines 155-165: configuration and docker.from_env(), outside the try block
Setup ==
  /\ pc = "setup"
  /\ \E r \in {"ok", "fail"} :
       /\ Call("from_env", r)
       /\ IF r = "ok"
            THEN pc' = "pull" /\ exc' = exc
            ELSE pc' = "done" /\ exc' = "DockerException"
  /\ UNCHANGED <<hasToken, table, container, pg_available, attempts,
                 httpStatus, gzFile, dumpFile, dbRows, conBound, conOpen, ssn_list, posted>>

\* ------------------------------------------------- run_postgres_container

\* lines 34-39: docker_client.images.pull
Pull ==
  /\ pc = "pull"
  /\ \E r \in {"ok", "fail", "int"} :
       /\ Call("pull", r)
       /\ IF r = "ok"
            THEN pc' = "run" /\ exc' = exc
            ELSE IF r = "int"
              THEN pc' = AfterTryBlock("KeyboardInterrupt") /\ exc' = "KeyboardInterrupt"
              ELSE pc' = ProvisionFailTarget("PullError") /\ exc' = "PullError"
  /\ UNCHANGED <<hasToken, table, container, pg_available, attempts,
                 httpStatus, gzFile, dumpFile, dbRows, conBound, conOpen, ssn_list, posted>>

\* lines 42-55: docker_client.containers.run (create + start), then the
\* loop's locals. A failed or interrupted run may or may not have created
\* the container (create succeeded, start did not).
RunContainer ==
  /\ pc = "run"
  /\ \E r \in {"ok", "fail", "int"} :
       /\ Call("run", r)
       /\ IF r = "ok"
            THEN /\ container' = "running"
                 /\ pg_available' = FALSE
                 /\ attempts' = Attempts
                 /\ pc' = "probe"
                 /\ exc' = exc
            ELSE /\ container' \in {"absent", "created"}
                 /\ IF r = "int"
                      THEN /\ pc' = AfterTryBlock("KeyboardInterrupt")
                           /\ exc' = "KeyboardInterrupt"
                      ELSE /\ pc' = ProvisionFailTarget("RunError")
                           /\ exc' = "RunError"
                 /\ UNCHANGED <<pg_available, attempts>>
  /\ UNCHANGED <<hasToken, table, httpStatus, gzFile, dumpFile, dbRows,
                 conBound, conOpen, ssn_list, posted>>

\* lines 57-63: one connect probe, then attempts -= 1
Probe ==
  /\ pc = "probe"
  /\ \E r \in {"ok", "fail", "int"} :
       /\ Call("probe", r)
       /\ IF r = "int"
            THEN /\ pc' = AfterTryBlock("KeyboardInterrupt")
                 /\ exc' = "KeyboardInterrupt"
                 /\ UNCHANGED <<pg_available, attempts>>
            ELSE /\ pg_available' = (pg_available \/ r = "ok")
                 /\ attempts' = attempts - 1
                 /\ pc' = "sleep"
                 /\ exc' = exc
  /\ UNCHANGED <<hasToken, table, container, httpStatus, gzFile, dumpFile, dbRows,
                 conBound, conOpen, ssn_list, posted>>

\* lines 64-67 and the loop test of line 56: sleep(1); exit(1) when the
\* budget is used up; otherwise leave the loop if available, else probe again
SleepAndCheck ==
  /\ pc = "sleep"
  /\ \E r \in {"ok", "int"} :
       /\ Call("sleep", r)
       /\ IF r = "int"
            THEN pc' = AfterTryBlock("KeyboardInterrupt") /\ exc' = "KeyboardInterrupt"
            ELSE IF BudgetExhausted(attempts)
              THEN pc' = ReadinessExitTarget("SystemExit") /\ exc' = "SystemExit"
              ELSE IF LoopEnds(pg_available)
                THEN pc' = "get" /\ exc' = exc
                ELSE pc' = "probe" /\ exc' = exc
  /\ UNCHANGED <<hasToken, table, container, pg_available, attempts,
                 httpStatus, gzFile, dumpFile, dbRows, conBound, conOpen, ssn_list, posted>>

\* -------------------------------------------------------- get_the_problem

\* lines 72-80: requests.get, then raise_for_status
Get ==
  /\ pc = "get"
  /\ \/ \E code \in HttpCodes :
          /\ httpStatus' = [httpStatus EXCEPT !.get = code]
          /\ IF RaiseForStatus(code)
               THEN /\ Call("get", "fail")
                    /\ pc' = AfterTryBlock("HTTPErrorGet")
                    /\ exc' = "HTTPErrorGet"
               ELSE /\ Call("get", "ok")
                    /\ pc' = "write_gz"
                    /\ exc' = exc
     \/ \E r \in {"fail", "int"} :
          /\ Call("get", r)
          /\ LET e == IF r = "int" THEN "KeyboardInterrupt" ELSE "ConnectionErrorGet"
             IN  pc' = AfterTryBlock(e) /\ exc' = e
          /\ UNCHANGED httpStatus
  /\ UNCHANGED <<hasToken, table, container, pg_available, attempts,
                 gzFile, dumpFile, dbRows, conBound, conOpen, ssn_list, posted>>

\* lines 82-86: open('<dump_file>.gz', 'wb') creates the file, then
\* base64.b64decode(res.json()['dump']) is evaluated and written
WriteGz ==
  /\ pc = "write_gz"
  /\ \E r \in {"ok", "fail"} :
       /\ Call("decode", r)
       /\ IF r = "ok"
            THEN gzFile' = "written" /\ pc' = "gunzip" /\ exc' = exc
            ELSE /\ gzFile' = "empty"
                 /\ pc' = AfterTryBlock("PayloadError")
                 /\ exc' = "PayloadError"
  /\ UNCHANGED <<hasToken, table, container, pg_available, attempts,
                 httpStatus, dumpFile, dbRows, conBound, conOpen, ssn_list, posted>>

\* lines 88-94: open(dump_file, 'wb') creates the file, then the archive is
\* read and written out
Gunzip ==
  /\ pc = "gunzip"
  /\ \E r \in {"ok", "fail"} :
       /\ Call("gunzip", r)
       /\ IF r = "ok"
            THEN dumpFile' = "written" /\ pc' = "psql" /\ exc' = exc
            ELSE /\ dumpFile' = "empty"
                 /\ pc' = AfterTryBlock("PayloadError")
                 /\ exc' = "PayloadError"
  /\ UNCHANGED <<hasToken, table, container, pg_available, attempts,
                 httpStatus, gzFile, dbRows, conBound, conOpen, ssn_list, posted>>

\* -------------------------------------------------------- restore_pg_dump

\* lines 100-120: check_output("psql ... -f dump_file")
Psql_RetryOnFail ==
  /\ pc = "psql"
  /\ \E r \in {"ok", "fail", "int"} :
       /\ Call("psql", r)
       /\ IF r = "ok"
            THEN dbRows' = table /\ pc' = "connect" /\ exc' = exc
            ELSE IF r = "fail"
              THEN pc' = "psql" /\ exc' = exc /\ UNCHANGED dbRows
              ELSE /\ pc' = AfterTryBlock("KeyboardInterrupt")
                   /\ exc' = "KeyboardInterrupt"
                   /\ UNCHANGED dbRows
  /\ UNCHANGED <<hasToken, table, container, pg_available, attempts,
                 httpStatus, gzFile, dumpFile, conBound, conOpen, ssn_list, posted>>
Psql ==
  /\ pc = "psql"
  /\ \E r \in {"ok", "fail", "int"} :
       /\ Call("psql", r)
       /\ IF r = "ok"
            THEN dbRows' = table /\ pc' = "connect" /\ exc' = exc
            ELSE LET e == IF r = "int" THEN "KeyboardInterrupt" ELSE "CalledProcessError"
                 IN  pc' = AfterTryBlock(e) /\ exc' = e /\ UNCHANGED dbRows
  /\ UNCHANGED <<hasToken, table, container, pg_available, attempts,
                 httpStatus, gzFile, dumpFile, conBound, conOpen, ssn_list, posted>>

\* ------------------------------------------------ get_alive_criminal_ssns

\* line 126: con = psycopg2.connect(...); DatabaseError -> sys.exit(e)
\* (lines 130-131). Either way the finally clause of line 132 is next.
Connect ==
  /\ pc = "connect"
  /\ \E r \in {"ok", "fail", "int"} :
       /\ Call("connect", r)
       /\ IF r = "ok"
            THEN conBound' = TRUE /\ conOpen' = TRUE /\ pc' = "query" /\ exc' = exc
            ELSE /\ exc' = IF r = "int" THEN "KeyboardInterrupt" ELSE "SystemExitDb"
                 /\ pc' = "finally_con"
                 /\ UNCHANGED <<conBound, conOpen>>
  /\ UNCHANGED <<hasToken, table, container, pg_available, attempts,
                 httpStatus, gzFile, dumpFile, dbRows, ssn_list, posted>>

\* lines 127-131: cursor, execute, fetchall, flatten; DatabaseError -> sys.exit(e)
Query ==
  /\ pc = "query"
  /\ \E r \in {"ok", "fail", "int"} :
       /\ Call("query", r)
       /\ IF r = "ok"
            THEN ssn_list' = Flatten(SelectAlive(dbRows)) /\ exc' = exc
            ELSE /\ exc' = IF r = "int" THEN "KeyboardInterrupt" ELSE "SystemExitDb"
                 /\ UNCHANGED ssn_list
       /\ pc' = "finally_con"
  /\ UNCHANGED <<hasToken, table, container, pg_available, attempts,
                 httpStatus, gzFile, dumpFile, dbRows, conBound, conOpen, posted>>

\* lines 132-135: finally: if con: con.close(); then return ssn_list or
\* continue raising. An unbound 'con' makes 'if con' raise UnboundLocalError,
\* which replaces the exception in flight.
FinallyCon_CloseOnSuccess ==
  /\ pc = "finally_con"
  /\ IF conBound /\ exc = "none"
       THEN /\ Call("close", "ok")
            /\ conOpen' = FALSE
            /\ exc' = exc
            /\ pc' = "post"
       ELSE /\ exc' = IF conBound THEN exc ELSE "UnboundLocalError"
            /\ pc' = AfterTryBlock(exc)
            /\ UNCHANGED <<calls, res, conOpen>>
  /\ UNCHANGED <<hasToken, table, container, pg_available, attempts,
                 httpStatus, gzFile, dumpFile, dbRows, conBound, ssn_list, posted>>
FinallyCon_ConNone ==
  /\ pc = "finally_con"
  /\ IF conBound
       THEN /\ Call("close", "ok")
            /\ conOpen' = FALSE
       ELSE UNCHANGED <<calls, res, conOpen>>
  /\ exc' = exc
  /\ pc' = IF exc = "none" THEN "post" ELSE AfterTryBlock(exc)
  /\ UNCHANGED <<hasToken, table, container, pg_available, attempts,
                 httpStatus, gzFile, dumpFile, dbRows, conBound, ssn_list, posted>>
FinallyCon ==
  /\ pc = "finally_con"
  /\ IF conBound
       THEN /\ Call("close", "ok")
            /\ conOpen' = FALSE
            /\ exc' = exc
            /\ pc' = IF exc = "none" THEN "post"
                     ELSE IF exc = "SystemExitDb" THEN ExtractorExitTarget(exc)
                     ELSE AfterTryBlock(exc)
       ELSE /\ exc' = "UnboundLocalError"
            /\ pc' = AfterTryBlock("UnboundLocalError")
            /\ UNCHANGED <<calls, res, conOpen>>
  /\ UNCHANGED <<hasToken, table, container, pg_available, attempts,
                 httpStatus, gzFile, dumpFile, dbRows, conBound, ssn_list, posted>>

\* ------------------------------------------------------ send_the_solution

\* lines 140-146: requests.post(json={"alive_ssns": ssn_list}), raise_for_status
Post ==
  /\ pc = "post"
  /\ \/ \E code \in HttpCodes :
          /\ httpStatus' = [httpStatus EXCEPT !.post = code]
          /\ posted' = Append(posted, ssn_list)
          /\ IF RaiseForStatus(code)
               THEN /\ Call("post", "fail")
                    /\ pc' = AfterTryBlock("HTTPErrorPost")
                    /\ exc' = "HTTPErrorPost"
               ELSE /\ Call("post", "ok")
                    /\ pc' = AfterTryBlock("none")
                    /\ exc' = exc
     \/ \E r \in {"fail", "int"} :
          /\ Call("post", r)
          /\ LET e == IF r = "int" THEN "KeyboardInterrupt" ELSE "ConnectionErrorPost"
             IN  pc' = AfterTryBlock(e) /\ exc' = e
          /\ UNCHANGED <<httpStatus, posted>>
  /\ UNCHANGED <<hasToken, table, container, pg_available, attempts,
                 gzFile, dumpFile, dbRows, conBound, conOpen, ssn_list>>

\* ------------------------------------------------- teardown (finally, 171)

\* line 172: container = docker_client.containers.get(container_name);
\* NotFound when no container of that name exists. An exception raised in
\* the finally clause replaces the one in flight.
TdGet ==
  /\ pc = "td_get"
  /\ \E r \in (IF container = "absent" THEN {"fail"} ELSE {"ok", "fail"}) :
       /\ Call("lookup", r)
       /\ IF r = "ok"
            THEN pc' = "td_stop" /\ exc' = exc
            ELSE pc' = "done" /\ exc' = "LookupError"
  /\ UNCHANGED <<hasToken, table, container, pg_available, attempts,
                 httpStatus, gzFile, dumpFile, dbRows, conBound, conOpen, ssn_list, posted>>

\* line 173: container.stop()
TdStop_IgnoreFailure ==
  /\ pc = "td_stop"
  /\ \E r \in {"ok", "fail"} :
       /\ Call("stop", r)
       /\ container' = IF r = "ok" THEN "stopped" ELSE container
       /\ pc' = "td_remove"
       /\ exc' = exc
  /\ UNCHANGED <<hasToken, table, pg_available, attempts,
                 httpStatus, gzFile, dumpFile, dbRows, conBound, conOpen, ssn_list, posted>>
TdStop ==
  /\ pc = "td_stop"
  /\ \E r \in {"ok", "fail"} :
       /\ Call("stop", r)
       /\ IF r = "ok"
            THEN container' = "stopped" /\ pc' = "td_remove" /\ exc' = exc
            ELSE UNCHANGED container /\ pc' = "done" /\ exc' = "StopError"
  /\ UNCHANGED <<hasToken, table, pg_available, attempts,
                 httpStatus, gzFile, dumpFile, dbRows, conBound, conOpen, ssn_list, posted>>

\* line 174: container.remove(); then the exception in flight, if any,
\* continues and ends the process
TdRemove_Cleanup ==
  /\ pc = "td_remove"
  /\ \E r \in {"ok", "fail"} :
       /\ Call("remove", r)
       /\ IF r = "ok"
            THEN container' = "removed" /\ exc' = exc
            ELSE UNCHANGED container /\ exc' = "RemoveError"
       /\ pc' = "done"
  /\ gzFile' = "absent"
  /\ dumpFile' = "absent"
  /\ UNCHANGED <<hasToken, table, pg_available, attempts,
                 httpStatus, dbRows, conBound, conOpen, ssn_list, posted>>
TdRemove ==
  /\ pc = "td_remove"
  /\ \E r \in {"ok", "fail"} :
       /\ Call("remove", r)
       /\ IF r = "ok"
            THEN container' = "removed" /\ exc' = exc
            ELSE UNCHANGED container /\ exc' = "RemoveError"
       /\ pc' = "done"
  /\ UNCHANGED <<hasToken, table, pg_available, attempts,
                 httpStatus, gzFile, dumpFile, dbRows, conBound, conOpen, ssn_list, posted>>

Next ==
  \/ ParseArgs
  \/ Setup
  \/ Pull
  \/ RunContainer
  \/ Probe
  \/ SleepAndCheck
  \/ Get
  \/ WriteGz
  \/ Gunzip
  \/ Psql
  \/ Connect
  \/ Query
  \/ FinallyCon
  \/ Post
  \/ TdGet
  \/ TdStop
  \/ TdRemove

Spec == Init /\ [][Next]_vars

\* ---------------------------------------------------------- abbreviations
Done == pc = "done"
Created == container # "absent"
InTeardown == pc \in {"td_get", "td_stop", "td_remove"}
NoInterrupt == \A s \in Steps : res[s] # "int"

TypeOK ==
  /\ pc \in {"start", "setup", "pull", "run", "probe", "sleep", "get", "write_gz",
             "gunzip", "psql", "connect", "query", "finally_con", "post",
             "td_get", "td_stop", "td_remove", "done"}
  /\ container \in {"absent", "created", "running", "stopped", "removed"}
  /\ calls \in [Steps -> 0..Attempts]
  /\ res \in [Steps -> {"none", "ok", "fail", "int"}]
  /\ attempts \in 0..Attempts
  /\ pg_available \in BOOLEAN

\* A status code that is not 2xx (0: no response was received)
Non2xx(code) == code # 0 /\ ~(code >= 200 /\ code < 300)

\* the teardown calls made so far follow line order: stop only after the
\* lookup returned, remove only after stop returned
TeardownRan ==
  /\ calls["lookup"] = 1
  /\ res["lookup"] = "ok" => calls["stop"] = 1
  /\ res["stop"] = "ok" => calls["remove"] = 1

NoTeardownCall == calls["lookup"] = 0 /\ calls["stop"] = 0 /\ calls["remove"] = 0

\* exit(1) of line 67 was executed: the loop ran out of attempts
ReadinessExited ==
  /\ res["run"] = "ok"
  /\ res["sleep"] = "ok"
  /\ BudgetExhausted(attempts)
  /\ pc \notin {"probe", "sleep"}

\* sys.exit(e) of line 131 was executed
DbExited == res["connect"] = "fail" \/ res["query"] = "fail"

Interrupted == \E s \in Steps : res[s] = "int"

\* --------------------------------------------------------------- claims

\* C1: in every terminated run in which the container was created, the
\* teardown block was executed: the container was looked up by name, stop was
\* called once the lookup returned and remove once stop returned -- whatever
\* ended steps 1-5 (normal completion, readiness exit, GET failure, malformed
\* payload, load failure, query failure, POST failure).
C1_TeardownAfterCreation ==
  /\ (Done /\ Created) => TeardownRan
  /\ calls["stop"] > 0 => res["lookup"] = "ok"
  /\ calls["remove"] > 0 => res["stop"] = "ok"

W_C1 ==
  /\ Done
  /\ res["query"] = "fail"
  /\ container = "removed"
  /\ calls["lookup"] = 1 /\ calls["stop"] = 1 /\ calls["remove"] = 1

\* C2: when no probe ever succeeds (and the operator does not interrupt),
\* the run makes exactly 5 connect probes and ends with non-zero status
\* without the GET or any later step ever being executed.
C2_NeverReadyFiveProbes ==
  /\ ~pg_available =>
       /\ calls["get"] = 0 /\ calls["psql"] = 0 /\ calls["connect"] = 0
       /\ calls["query"] = 0 /\ calls["post"] = 0
  /\ (Done /\ res["run"] = "ok" /\ ~pg_available /\ NoInterrupt) =>
       /\ calls["probe"] = Attempts
       /\ ExitCode # 0
  /\ (exc = "SystemExit" /\ ~pg_available) => calls["probe"] = Attempts

W_C2 ==
  /\ Done
  /\ res["run"] = "ok"
  /\ ~pg_available
  /\ NoInterrupt
  /\ calls["probe"] = Attempts

\* C3 (as claimed): whenever one of the probes has succeeded, the provisioner
\* returns normally and the pipeline proceeds to the fetch step.
C3_AnySuccessProceeds ==
  (pg_available /\ pc # "sleep" /\ res["sleep"] # "int") =>
     (pc = "get" \/ calls["get"] = 1)

C5_HappyPathExitsZero ==
  (/\ Done
   /\ hasToken
   /\ pg_available
   /\ \A s \in Steps \ {"probe"} : res[s] \in {"none", "ok"}
   /\ res["probe"] = "ok")
  => (ExitCode = 0 /\ calls["post"] = 1 /\ Len(posted) = 1)

\* C6: each step starts only after every earlier one completed: run after
\* pull, probes after run, GET after a successful probe, psql after the dump
\* was written, connect and query after psql exited 0, POST after the query
\* returned and the connection was closed.
C6_StrictOrder ==
  /\ calls["run"] > 0 => res["pull"] = "ok"
  /\ calls["probe"] > 0 => res["run"] = "ok"
  /\ calls["get"] > 0 => (res["probe"] = "ok" /\ pg_available)
  /\ calls["decode"] > 0 => (res["get"] = "ok" /\ ~Non2xx(httpStatus.get))
  /\ calls["gunzip"] > 0 => (res["decode"] = "ok" /\ gzFile = "written")
  /\ calls["psql"] > 0 => (res["gunzip"] = "ok" /\ dumpFile = "written")
  /\ calls["connect"] > 0 => res["psql"] = "ok"
  /\ calls["query"] > 0 => res["connect"] = "ok"
  /\ calls["post"] > 0 => (res["query"] = "ok" /\ res["close"] = "ok")

W_C6 ==
  /\ res["post"] = "ok"
  /\ res["query"] = "ok"
  /\ res["psql"] = "ok"
  /\ res["get"] = "ok"
  /\ res["probe"] = "ok"

\* C7 (as claimed): after the readiness exit no container lookup, stop or
\* remove occurs.
C7_ReadinessExitSkipsTeardown == ReadinessExited => NoTeardownCall

\* C7 (amended): exit(1) raises SystemExit, which leaves the try block
\* through the finally clause: after the readiness exit only teardown runs,
\* the lookup has been called when the process ends, and the status is
\* non-zero. A run ends without a teardown attempt only when it ended before
\* the try block was entered (no token, or docker.from_env failed).
C7_ReadinessExitRunsTeardown ==
  /\ ReadinessExited =>
       /\ InTeardown \/ Done
       /\ calls["get"] = 0
       /\ Done => (TeardownRan /\ ExitCode # 0)
  /\ (Done /\ calls["lookup"] = 0) => (~hasToken \/ res["from_env"] = "fail")

W_C7 ==
  /\ Done
  /\ ReadinessExited
  /\ exc = "SystemExit"
  /\ container = "removed"

\* C8 (as claimed): after a database error in the extractor the teardown
\* block (lookup, stop, remove) is not executed.
C8_DbErrorSkipsTeardown == DbExited => NoTeardownCall

\* C8 (amended): sys.exit(e) raises SystemExit, which leaves the extractor
\* through its finally clause and the try block of main through the teardown:
\* after a database error no POST is sent, the teardown block is executed
\* before the process ends, and the status is non-zero.
C8_DbErrorRunsTeardown ==
  DbExited =>
    /\ pc = "finally_con" \/ InTeardown \/ Done
    /\ calls["post"] = 0
    /\ Done => (TeardownRan /\ ExitCode # 0)

W_C8 ==
  /\ Done
  /\ res["query"] = "fail"
  /\ exc = "SystemExitDb"
  /\ calls["close"] = 1
  /\ container = "removed"

\* C9: when provisioning ended (pull or run did not return) with no container
\* in existence, the teardown block still runs, its lookup fails, stop and
\* remove are never called, and the process ends with the lookup error in
\* place of the provisioning error.
ProvisionFailedUncreated ==
  /\ res["pull"] = "fail" \/ res["run"] = "fail"
  /\ container = "absent"

C9_LookupMasksProvisionError ==
  ProvisionFailedUncreated =>
    /\ pc = "td_get" \/ Done
    /\ calls["stop"] = 0 /\ calls["remove"] = 0
    /\ pc = "td_get" => exc \in {"PullError", "RunError"}
    /\ Done => /\ calls["lookup"] = 1
               /\ res["lookup"] = "fail"
               /\ exc = "LookupError"
               /\ ExitCode # 0

W_C9 ==
  /\ Done
  /\ res["run"] = "fail"
  /\ container = "absent"
  /\ exc = "LookupError"

\* C10 (as claimed): an interrupt during a blocking step of the pipeline
\* skips teardown, and the run ends with the instance still existing.
C10_InterruptSkipsTeardown ==
  Interrupted => (NoTeardownCall /\ container # "removed")

\* C10 (amended): KeyboardInterrupt raised in a blocking step of the pipeline
\* leaves the try block through the finally clause: the teardown block is
\* executed before the process ends (with non-zero status), and an instance
\* that exists is still there at the end only if the lookup, stop or remove
\* call failed.
C10_InterruptRunsTeardown ==
  Interrupted =>
    /\ pc = "finally_con" \/ InTeardown \/ Done
    /\ Done =>
         /\ TeardownRan
         /\ ExitCode # 0
         /\ container \in {"created", "running", "stopped"} =>
              \E s \in {"lookup", "stop", "remove"} : res[s] = "fail"

W_C10 ==
  /\ Done
  /\ res["psql"] = "int"
  /\ exc = "KeyboardInterrupt"
  /\ container = "removed"

\* C11: without the token argument the run ends at once with the usage
\* SystemExit and a non-zero status: no docker call, no container, no HTTP
\* request, no scratch file and no teardown call ever occurs in that run.
C11_MissingArgNoSideEffect ==
  ~hasToken =>
    /\ pc \in {"start", "done"}
    /\ \A s \in Steps : calls[s] = 0
    /\ container = "absent"
    /\ gzFile = "absent" /\ dumpFile = "absent"
    /\ posted = << >>
    /\ Done => (exc = "SystemExitUsage" /\ ExitCode # 0)

W_C11 ==
  /\ Done
  /\ ~hasToken
  /\ exc = "SystemExitUsage"

\* C12: pull, container start, GET, psql load, connect, query and POST are
\* each invoked at most once per run, so at most one container is created;
\* only the readiness probe is repeated.
C12_NoRetryButProbe ==
  /\ \A s \in Steps \ {"probe", "sleep"} : calls[s] <= 1
  /\ Len(posted) <= 1
  /\ calls["run"] = 0 => container = "absent"

W_C12 ==
  /\ Done
  /\ calls["probe"] > 1
  /\ calls["pull"] = 1 /\ calls["run"] = 1 /\ calls["get"] = 1
  /\ calls["psql"] = 1 /\ calls["query"] = 1 /\ calls["post"] = 1

\* C13: no step removes a scratch file: once '<path>.gz' or '<path>' exists
\* it exists in every later state, and once written it stays written.
C13_ScratchFilesKept ==
  [][/\ gzFile # "absent" => gzFile' # "absent"
     /\ dumpFile # "absent" => dumpFile' # "absent"
     /\ gzFile = "written" => gzFile' = "written"
     /\ dumpFile = "written" => dumpFile' = "written"]_vars

W_C13 ==
  /\ Done
  /\ gzFile = "written"
  /\ dumpFile = "written"
  /\ container = "removed"
  /\ res["psql"] = "fail"

\* C14: the list the extractor returns, and that is POSTed as alive_ssns, is
\* the ssn of exactly the rows of criminal_records whose status is 'alive',
\* in row order: its k-th element is the ssn of the k-th alive row.
AliveIdx == {i \in 1..Len(dbRows) : dbRows[i].status = "alive"}
KthAlive(k) == CHOOSE i \in AliveIdx : Cardinality({j \in AliveIdx : j <= i}) = k

C14_ExactlyAliveInOrder ==
  /\ res["psql"] = "ok" => dbRows = table
  /\ res["query"] = "ok" =>
       /\ Len(ssn_list) = Cardinality(AliveIdx)
       /\ \A k \in 1..Len(ssn_list) : ssn_list[k] = dbRows[KthAlive(k)].ssn
  /\ posted # << >> => posted = <<ssn_list>>

W_C14 ==
  /\ res["post"] = "ok"
  /\ Len(table) = 2
  /\ table[1].status = "dead"
  /\ table[2].status = "alive"
  /\ posted = <<<<table[2].ssn>>>>

\* C15: the readiness loop makes at most 5 connect probes whatever their
\* outcomes, and makes no probe after one has succeeded.
C15_AtMostFiveProbes ==
  /\ [](calls["probe"] <= Attempts)
  /\ [][pg_available => calls'["probe"] = calls["probe"]]_vars

W_C15 ==
  /\ pc = "get"
  /\ pg_available
  /\ calls["probe"] = 3

\* C16: once psycopg2.connect returned, the connection is closed exactly
\* once before control leaves the extractor, on every exit path (return,
\* database error, interrupt); it is never open outside the extractor.
C16_ConnectionClosedOnce ==
  /\ calls["close"] <= 1
  /\ conOpen => pc \in {"query", "finally_con"}
  /\ (res["connect"] = "ok" /\ pc \notin {"query", "finally_con"}) =>
       (calls["close"] = 1 /\ ~conOpen)
  /\ calls["close"] = 1 => res["connect"] = "ok"

W_C16 ==
  /\ Done
  /\ res["connect"] = "ok"
  /\ res["query"] = "int"
  /\ calls["close"] = 1
  /\ ~conOpen

\* C17: when connect itself fails, 'con' is unbound in the finally clause:
\* UnboundLocalError replaces the SystemExit of sys.exit(e) as the exception
\* that leaves the extractor; close is never called and no POST is issued.
C17_UnboundConMasksExit ==
  res["connect"] = "fail" =>
    /\ pc = "finally_con" \/ InTeardown \/ Done
    /\ pc = "finally_con" => exc = "SystemExitDb"
    /\ pc = "td_get" => exc = "UnboundLocalError"
    /\ exc # "SystemExitDb" \/ pc = "finally_con"
    /\ calls["close"] = 0
    /\ calls["query"] = 0
    /\ calls["post"] = 0

W_C17 ==
  /\ Done
  /\ res["connect"] = "fail"
  /\ exc = "UnboundLocalError"
  /\ container = "removed"

\* C18: stop is called only after the lookup returned and remove only after
\* stop returned; when stop fails remove is never attempted and the run ends
\* with the instance still in existence.
C18_StopThenRemove ==
  /\ calls["stop"] > 0 => res["lookup"] = "ok"
  /\ calls["remove"] > 0 => (res["lookup"] = "ok" /\ res["stop"] = "ok")
  /\ res["lookup"] = "fail" => (calls["stop"] = 0 /\ calls["remove"] = 0)
  /\ res["stop"] = "fail" =>
       /\ Done
       /\ calls["remove"] = 0
       /\ container \in {"created", "running"}
       /\ exc = "StopError"

W_C18 ==
  /\ Done
  /\ res["stop"] = "fail"
  /\ container = "running"
  /\ calls["remove"] = 0

\* C19: a terminated run has exit code 0 exactly when the POST was answered
\* 2xx and lookup, stop and remove all returned; every other terminated run
\* has a non-zero status.
RunSucceeded ==
  /\ res["post"] = "ok"
  /\ httpStatus.post >= 200 /\ httpStatus.post < 300
  /\ res["lookup"] = "ok" /\ res["stop"] = "ok" /\ res["remove"] = "ok"
  /\ container = "removed"

====
